---- MODULE Spec2Model ----
(***************************************************************************)
(* Model of plugins/thunderbolt/fu-thunderbolt-firmware.c: the Thunderbolt *)
(* firmware image parser.  One FuThunderboltFirmware object is created and *)
(* fu_thunderbolt_firmware_parse() runs on one image; every step of the    *)
(* parse is an action, sequenced by pc.                                    *)
(*                                                                         *)
(* A guint32 is kept as two 16-bit limbs [hi, lo] (value = hi*65536 + lo), *)
(* so that 32-bit wrap-around is computed exactly; a guint16 and a guint8  *)
(* are plain naturals reduced modulo 2^16 and 2^8.                         *)
(***************************************************************************)
EXTENDS Naturals, Sequences, FiniteSets

VARIABLES
    image,              \* the GBytes given to parse: [len, data]
    self,               \* struct _FuThunderboltFirmware
    pc,                 \* position inside fu_thunderbolt_firmware_parse
    err,                \* the GError set by the failing step, "None" if none
    tmp,                \* guint8 tmp of fu_thunderbolt_firmware_parse
    offset,             \* guint32 offset of fu_thunderbolt_firmware_read_sections
    available_sections, \* guint8 available_sections of read_sections
    reads               \* every call of fu_thunderbolt_firmware_read_location so far

vars == <<image, self, pc, err, tmp, offset, available_sections, reads>>

----------------------------------------------------------------------------
(* Bounds of the model (not program constants).                            *)

\* length of the full-size flash dumps that are parsed
FullLen == 8192
\* length of the truncated dumps (longer than the 128-byte probe chunk)
ShortLen == 256

----------------------------------------------------------------------------
(* Program constants.                                                      *)

\* FU_TBT_OFFSET_NATIVE (0x7B), from fu-thunderbolt-firmware.h
FU_TBT_OFFSET_NATIVE == 123
\* g_bytes_get_size (fw) == 0x80
FU_TBT_PROBE_SZ == 128
\* second location of the FARB pointer, 0x1000
FARB_FALLBACK == 4096
\* offsets inside the digital section
OFF_IS_HOST == 16
OFF_DEVICE_ID == 5
OFF_DROM_PTR == 270
OFF_ARC_PARAMS_PTR == 117
OFF_AVAILABLE_SECTIONS == 2
OFF_UCODE_START == 3
OFF_FLASH_SIZE == 69
\* offsets inside the DROM section
OFF_VENDOR_ID == 16
OFF_MODEL_ID == 18
\* offset inside the ARC params section
OFF_PD_POINTER == 268
\* DRAM_FLAG = 1 << 6
DRAM_FLAG == 64

----------------------------------------------------------------------------
(* Fixed-width arithmetic.                                                 *)

W(hi, lo) == [hi |-> hi, lo |-> lo]

\* a small natural as a guint32
U32(n) == W(n \div 65536, n % 65536)

W0 == W(0, 0)

\* a + b of two guint32 as an unbounded integer (hi may exceed 0xFFFF)
AddWide(a, b) ==
    LET lo == a.lo + b.lo
    IN  W(a.hi + b.hi + lo \div 65536, lo % 65536)

\* a + b in guint32 arithmetic
Add32(a, b) ==
    LET s == AddWide(a, b)
    IN  W(s.hi % 65536, s.lo)

\* a - b in guint32 arithmetic
Sub32(a, b) ==
    LET borrow == IF a.lo < b.lo THEN 1 ELSE 0
    IN  W((a.hi + 65536 - b.hi - borrow) % 65536, (a.lo + 65536 - b.lo) % 65536)

\* x & (1 << bit)
BitSet(x, bit) == (x \div (2 ^ bit)) % 2 = 1

\* little-endian encodings, used to lay out images
LE16(v) == <<v % 256, v \div 256>>
LE24(w) == <<w.lo % 256, w.lo \div 256, w.hi % 256>>
LE32(w) == LE16(w.lo) \o LE16(w.hi)

\* GUINT16_FROM_LE / GUINT32_FROM_LE of the bytes copied into a zeroed tmp
GUINT16_FROM_LE(buf) == buf[1] + 256 * buf[2]
GUINT32_FROM_LE(buf) ==
    W((IF Len(buf) >= 3 THEN buf[3] ELSE 0) + 256 * (IF Len(buf) >= 4 THEN buf[4] ELSE 0),
      buf[1] + 256 * buf[2])

----------------------------------------------------------------------------
(* The image.                                                              *)

\* byte i of the image (i < image.len); bytes that were not laid out are 0
ByteOf(img, i) == IF i \in DOMAIN img.data THEN img.data[i] ELSE 0

\* the image with the bytes bs written at position pos (what falls outside
\* the image is dropped)
Put(img, pos, bs) ==
    LET at == {i \in pos .. (pos + Len(bs) - 1) : i < img.len}
    IN  [img EXCEPT !.data =
            [i \in (DOMAIN img.data) \cup at |->
                IF i \in at THEN bs[i - pos + 1] ELSE img.data[i]]]

RECURSIVE PutAll(_, _)
PutAll(img, patches) ==
    IF patches = <<>> THEN img
    ELSE PutAll(Put(img, Head(patches)[1], Head(patches)[2]), Tail(patches))

----------------------------------------------------------------------------
(* The object.                                                             *)

SECTION_DIGITAL == "DIGITAL"
SECTION_DROM == "DROM"
SECTION_ARC_PARAMS == "ARC_PARAMS"
SECTION_DRAM_UCODE == "DRAM_UCODE"
Sections == {SECTION_DIGITAL, SECTION_DROM, SECTION_ARC_PARAMS, SECTION_DRAM_UCODE}

Families == {"UNKNOWN", "FR", "WR", "AR", "AR_C", "TR", "BB"}

\* the object g_object_new returns: zero-filled
fu_thunderbolt_firmware_new ==
    [sections   |-> [s \in Sections |-> W0],
     family     |-> "UNKNOWN",
     is_host    |-> FALSE,
     is_native  |-> FALSE,
     has_pd     |-> FALSE,
     device_id  |-> 0,
     vendor_id  |-> 0,
     model_id   |-> 0,
     gen        |-> 0,
     ports      |-> 0,
     flash_size |-> 0]

hw_info_arr ==
    << [id |-> 5485, gen |-> 2, family |-> "FR",   ports |-> 2],   \* 0x156D FR 4C
       [id |-> 5483, gen |-> 2, family |-> "FR",   ports |-> 1],   \* 0x156B FR 2C
       [id |-> 5502, gen |-> 2, family |-> "WR",   ports |-> 1],   \* 0x157E WR
       [id |-> 5496, gen |-> 3, family |-> "AR",   ports |-> 2],   \* 0x1578 AR 4C
       [id |-> 5494, gen |-> 3, family |-> "AR",   ports |-> 1],   \* 0x1576 AR 2C
       [id |-> 5568, gen |-> 3, family |-> "AR",   ports |-> 1],   \* 0x15C0 AR LP
       [id |-> 5587, gen |-> 3, family |-> "AR_C", ports |-> 2],   \* 0x15D3 AR-C 4C
       [id |-> 5594, gen |-> 3, family |-> "AR_C", ports |-> 1],   \* 0x15DA AR-C 2C
       [id |-> 5607, gen |-> 3, family |-> "TR",   ports |-> 1],   \* 0x15E7 TR 2C
       [id |-> 5610, gen |-> 3, family |-> "TR",   ports |-> 2],   \* 0x15EA TR 4C
       [id |-> 5615, gen |-> 3, family |-> "TR",   ports |-> 2],   \* 0x15EF TR 4C device
       [id |-> 5614, gen |-> 3, family |-> "BB",   ports |-> 0] >> \* 0x15EE BB device

----------------------------------------------------------------------------
(* Readers.                                                                *)

\* fu_memcpy_safe (fu-common.c): the copy of n bytes from src_offset is
\* refused unless it lies inside the src_sz bytes of the source.  gsize is
\* wider than guint32, so n + src_offset does not wrap.  (Image sizes of the
\* model are far below 2^30.)
fu_memcpy_safe(src_sz, src_offset, n) ==
    /\ src_offset.hi < 16384
    /\ src_offset.hi * 65536 + src_offset.lo + n <= src_sz

\* guint32 location_start = self->sections[section] + offset
location_start(s, section, off) == Add32(s.sections[section], off)

\* fu_thunderbolt_firmware_read_location: ok, the bytes copied, and the
\* record of the call
read_location(s, section, off, len) ==
    LET start == location_start(s, section, off)
        ok    == fu_memcpy_safe(image.len, start, len)
        at    == start.hi * 65536 + start.lo
    IN  [ok  |-> ok,
         buf |-> IF ok THEN [k \in 1 .. len |-> ByteOf(image, at + k - 1)] ELSE <<>>,
         log |-> [section |-> section, base |-> s.sections[section],
                  offset |-> off, len |-> len, ok |-> ok, start |-> start]]

\* mutant: only 0 is taken for an invalid FARB pointer
valid_farb_pointer_zero_only(pointer) == pointer # W0

valid_farb_pointer(pointer) == pointer # W0 /\ pointer # W(255, 65535)

valid_pd_pointer(pointer) == pointer # W0 /\ pointer # W(65535, 65535)

\* fu_thunderbolt_firmware_read_farb_pointer: the pointer (0 on error), the
\* error, and the reads it made
read_farb_pointer(s) ==
    LET r1 == read_location(s, SECTION_DIGITAL, U32(0), 3)
        v1 == GUINT32_FROM_LE(r1.buf)
        r2 == read_location(s, SECTION_DIGITAL, U32(FARB_FALLBACK), 3)
        v2 == GUINT32_FROM_LE(r2.buf)
    IN  IF ~r1.ok THEN [value |-> W0, err |-> "OutOfBounds", logs |-> {r1.log}]
        ELSE IF valid_farb_pointer(v1) THEN [value |-> v1, err |-> "None", logs |-> {r1.log}]
        ELSE IF ~r2.ok THEN [value |-> W0, err |-> "OutOfBounds", logs |-> {r1.log, r2.log}]
        ELSE IF ~valid_farb_pointer(v2)
             THEN [value |-> W0, err |-> "InvalidFormat", logs |-> {r1.log, r2.log}]
        ELSE [value |-> v2, err |-> "None", logs |-> {r1.log, r2.log}]


read_uint8(s, section, off) ==
    LET r == read_location(s, section, off, 1)
    IN  [ok |-> r.ok, value |-> IF r.ok THEN r.buf[1] ELSE 0, log |-> r.log]

read_uint16(s, section, off) ==
    LET r == read_location(s, section, off, 2)
    IN  [ok |-> r.ok, value |-> IF r.ok THEN GUINT16_FROM_LE(r.buf) ELSE 0, log |-> r.log]

read_uint32(s, section, off) ==
    LET r == read_location(s, section, off, 4)
    IN  [ok |-> r.ok, value |-> IF r.ok THEN GUINT32_FROM_LE(r.buf) ELSE W0, log |-> r.log]

\* *value *= sizeof(guint32); *value += sizeof(guint16); on a guint16
ucode_section_len(value) == (((value * 4) % 65536) + 2) % 65536

read_ucode_section_len(s, off) ==
    LET r == read_uint16(s, SECTION_DIGITAL, off)
    IN  [ok |-> r.ok, value |-> IF r.ok THEN ucode_section_len(r.value) ELSE 0, log |-> r.log]

\* for (guint8 i = 1; i < DRAM_FLAG; i <<= 1): the iterations from bit on,
\* with the running offset off
RECURSIVE ucode_chain(_, _, _, _)
ucode_chain(s, avail, bit, off) ==
    IF bit > 5 THEN [ok |-> TRUE, offset |-> off, logs |-> {}]
    ELSE IF ~BitSet(avail, bit) THEN ucode_chain(s, avail, bit + 1, off)
    ELSE LET r == read_ucode_section_len(s, off)
         IN  IF ~r.ok THEN [ok |-> FALSE, offset |-> off, logs |-> {r.log}]
             ELSE LET rest == ucode_chain(s, avail, bit + 1, Add32(off, U32(r.value)))
                  IN  [rest EXCEPT !.logs = @ \cup {r.log}]

\* the first entry of hw_info_arr with this id, as a set (empty: none)
hw_info_lookup(id) ==
    LET hits == {i \in 1 .. Len(hw_info_arr) : hw_info_arr[i].id = id}
    IN  IF hits = {} THEN {}
        ELSE {hw_info_arr[CHOOSE i \in hits : \A j \in hits : i <= j]}

\* mutant: a controller without ports is rejected whether host or not
unknown_controller_any_role(s) == s.ports = 0

\* if (self->ports == 0 && self->is_host)
unknown_controller(s) == s.ports = 0 /\ s.is_host

\* mutant: generations below 3 are excused whether host or not
missing_needed_drom_any_role(s) ==
    IF s.sections[SECTION_DROM] # W0 THEN FALSE
    ELSE IF s.gen < 3 THEN FALSE
    ELSE TRUE

missing_needed_drom(s) ==
    IF s.sections[SECTION_DROM] # W0 THEN FALSE
    ELSE IF s.is_host /\ s.gen < 3 THEN FALSE
    ELSE TRUE

\* if (self->gen >= 3 || self->gen == 0)
reads_drom_and_arc(s) == s.gen >= 3 \/ s.gen = 0

\* if (self->is_host && self->gen > 2)
reads_dram_ucode(s) == s.is_host /\ s.gen > 2

\* mutant: DRAM_FLAG taken for 1 << 5
has_dram_flag_bit5(avail) == (avail \div 32) % 2 = 1

\* if ((available_sections & DRAM_FLAG) == 0) is the error
has_dram_flag(avail) == (avail \div DRAM_FLAG) % 2 = 1

\* mutant: the first chunk taken for 0x40 bytes
is_first_chunk_half(img) == img.len = FU_TBT_PROBE_SZ \div 2

\* if (g_bytes_get_size (fw) == 0x80): we're only reading the first chunk
is_first_chunk(img) == img.len = FU_TBT_PROBE_SZ

\* self->is_native = tmp & 0x20
native_flag(byte) == BitSet(byte, 5)

\* self->is_host = tmp & (1 << 1)
host_flag(byte) == BitSet(byte, 1)

\* self->flash_size = tmp & 0x07
flash_size_class(byte) == byte % 8

\* mutant: the flash size is read whether host or not
reads_flash_size_any_role(s) == s.family \in {"AR", "AR_C", "TR"}

\* switch (self->family) under if (self->is_host)
reads_flash_size(s) == s.is_host /\ s.family \in {"AR", "AR_C", "TR"}

----------------------------------------------------------------------------
(* The images that are parsed.                                             *)

\* where the laid-out images keep their digital section
DigitalAt == 16
\* relative pointers to a DROM and an ARC params section inside the image
DromRel == 1024
ArcRel == 1536
\* relative start of the ucode section chain
UcodeStart == 2048

DeviceIds == {hw_info_arr[i].id : i \in 1 .. Len(hw_info_arr)} \cup {0, 65535}

\* DROM pointers: inside the image; making Drom + 0x10 wrap to 0; making
\* Drom itself wrap to 0; far outside the image
DromPtrs ==
    {U32(DromRel),
     Sub32(W(65535, 65520), U32(DigitalAt)),
     Sub32(W0, U32(DigitalAt)),
     W(32767, 65535)}

\* ARC params pointers: inside the image; making ArcParams + 0x10C wrap to
\* 0; making ArcParams itself wrap to 0
ArcPtrs ==
    {U32(ArcRel),
     Sub32(Sub32(W0, U32(OFF_PD_POINTER)), U32(DigitalAt)),
     Sub32(W0, U32(DigitalAt))}

AvailableSections == {0, 63, 64, 65, 127}
SectionWords == {1, 16383, 16384, 65535}
PdPointers == {W0, W(65535, 65535), W(255, 65535)}
FlashBytes == {0, 253}

DefaultBody ==
    [host |-> 0, dev |-> 5496, dromptr |-> U32(DromRel), arcptr |-> U32(ArcRel),
     avail |-> 64, words |-> 1, pd |-> W(255, 65535), flash |-> 253]

\* images that differ in length, FARB pointers and native byte
BootParams ==
    {[len |-> l, p0 |-> a, p1 |-> b, native |-> n, body |-> DefaultBody] :
        l \in {64, FU_TBT_PROBE_SZ, ShortLen, FARB_FALLBACK + 3, FullLen},
        a \in {W0, W(255, 65535), U32(DigitalAt), U32(FullLen - 16)},
        b \in {W0, W(255, 65535), U32(DigitalAt)},
        n \in {0, 32, 255}}

\* full-size images that differ in what the digital section holds
BodyParams ==
    {[len |-> FullLen, p0 |-> U32(DigitalAt), p1 |-> W0, native |-> 32,
      body |-> [host |-> h, dev |-> d, dromptr |-> dp, arcptr |-> ap,
                avail |-> av, words |-> w, pd |-> pd, flash |-> fl]] :
        h \in {0, 2}, d \in DeviceIds, dp \in DromPtrs, ap \in ArcPtrs,
        av \in AvailableSections, w \in SectionWords, pd \in PdPointers,
        fl \in FlashBytes}

\* truncated images: the digital section runs past the end of the image
TruncatedParams ==
    {[len |-> ShortLen, p0 |-> U32(DigitalAt), p1 |-> W0, native |-> 32,
      body |-> [DefaultBody EXCEPT !.host = h, !.dev = d, !.avail = av]] :
        h \in {0, 2}, d \in DeviceIds, av \in AvailableSections}

\* the bytes of the image p describes; later patches overwrite earlier ones
BuildImage(p) ==
    LET D == DigitalAt
        b == p.body
    IN  PutAll([len |-> p.len, data |-> [i \in {} |-> 0]],
          << <<D + DromRel + OFF_VENDOR_ID, LE16(32902)>>,
             <<D + DromRel + OFF_MODEL_ID, LE16(4660)>>,
             <<D + ArcRel + OFF_PD_POINTER, LE32(b.pd)>>,
             <<D + UcodeStart, LE16(b.words)>>,
             <<D + OFF_DROM_PTR, LE32(b.dromptr)>>,
             <<D + OFF_ARC_PARAMS_PTR, LE32(b.arcptr)>>,
             <<D + OFF_FLASH_SIZE, <<b.flash>> >>,
             <<D + OFF_IS_HOST, <<b.host>> >>,
             <<D + OFF_DEVICE_ID, LE16(b.dev)>>,
             <<D + OFF_AVAILABLE_SECTIONS, <<b.avail>> >>,
             <<D + OFF_UCODE_START, LE16(UcodeStart)>>,
             <<FU_TBT_OFFSET_NATIVE, <<p.native>> >>,
             <<FARB_FALLBACK, LE24(p.p1)>>,
             <<0, LE24(p.p0)>> >>)

Images == {BuildImage(p) : p \in BootParams \cup TruncatedParams \cup BodyParams}

----------------------------------------------------------------------------
(* The state machine.                                                      *)

Init ==
    /\ image = [len |-> 0, data |-> [i \in {} |-> 0]]
    /\ self = fu_thunderbolt_firmware_new
    /\ pc = "new"
    /\ err = "None"
    /\ tmp = 0
    /\ offset = W0
    /\ available_sections = 0
    /\ reads = {}

\* return FALSE with the error e
Fail(e) == pc' = "done" /\ err' = e

\* fu_firmware_image_new (fw); fu_firmware_add_image (firmware, img)
ParseAddImage ==
    /\ pc = "new"
    /\ \E img \in Images : image' = img
    /\ pc' = "native"
    /\ UNCHANGED <<self, err, tmp, offset, available_sections, reads>>

\* is native
ParseNative ==
    /\ pc = "native"
    /\ LET r == read_uint8(self, SECTION_DIGITAL, U32(FU_TBT_OFFSET_NATIVE))
       IN  /\ reads' = reads \cup {r.log}
           /\ IF ~r.ok
              THEN Fail("OutOfBounds") /\ UNCHANGED <<self, tmp>>
              ELSE /\ tmp' = r.value
                   /\ self' = [self EXCEPT !.is_native = native_flag(r.value)]
                   /\ pc' = "farb"
                   /\ UNCHANGED err
    /\ UNCHANGED <<image, offset, available_sections>>

\* self->sections[_SECTION_DIGITAL] = read_farb_pointer (...); then the
\* return for an image of one chunk
ParseFarbPointer ==
    /\ pc = "farb"
    /\ LET f == read_farb_pointer(self)
       IN  /\ reads' = reads \cup f.logs
           /\ self' = [self EXCEPT !.sections[SECTION_DIGITAL] = f.value]
           /\ IF f.value = W0
              THEN Fail(f.err)
              ELSE IF is_first_chunk(image)
              THEN pc' = "done" /\ UNCHANGED err
              ELSE pc' = "is_host" /\ UNCHANGED err
    /\ UNCHANGED <<image, tmp, offset, available_sections>>

\* host or device
ParseIsHost ==
    /\ pc = "is_host"
    /\ LET r == read_uint8(self, SECTION_DIGITAL, U32(OFF_IS_HOST))
       IN  /\ reads' = reads \cup {r.log}
           /\ IF ~r.ok
              THEN Fail("OutOfBounds") /\ UNCHANGED <<self, tmp>>
              ELSE /\ tmp' = r.value
                   /\ self' = [self EXCEPT !.is_host = host_flag(r.value)]
                   /\ pc' = "device_id"
                   /\ UNCHANGED err
    /\ UNCHANGED <<image, offset, available_sections>>

\* device ID
ParseDeviceId ==
    /\ pc = "device_id"
    /\ LET r == read_uint16(self, SECTION_DIGITAL, U32(OFF_DEVICE_ID))
       IN  /\ reads' = reads \cup {r.log}
           /\ IF ~r.ok
              THEN Fail("OutOfBounds") /\ UNCHANGED self
              ELSE /\ self' = [self EXCEPT !.device_id = r.value]
                   /\ pc' = "hw_info"
                   /\ UNCHANGED err
    /\ UNCHANGED <<image, tmp, offset, available_sections>>

\* this is best-effort: the table scan, then the unknown-controller check
ParseHwInfo ==
    /\ pc = "hw_info"
    /\ LET found == hw_info_lookup(self.device_id)
           s1 == IF found = {} THEN self
                 ELSE LET e == CHOOSE x \in found : TRUE
                      IN  [self EXCEPT !.family = e.family, !.gen = e.gen,
                                       !.ports = e.ports]
       IN  /\ self' = s1
           /\ IF unknown_controller(s1)
              THEN Fail("UnsupportedController")
              ELSE pc' = "sections" /\ UNCHANGED err
    /\ UNCHANGED <<image, tmp, offset, available_sections, reads>>


\* read_sections, first part: the DROM and ARC params pointers
ReadSectionsDromArc ==
    /\ pc = "sections"
    /\ IF reads_drom_and_arc(self)
       THEN LET r1 == read_uint32(self, SECTION_DIGITAL, U32(OFF_DROM_PTR))
                s1 == [self EXCEPT !.sections[SECTION_DROM] =
                          Add32(r1.value, self.sections[SECTION_DIGITAL])]
                r2 == read_uint32(s1, SECTION_DIGITAL, U32(OFF_ARC_PARAMS_PTR))
                s2 == [s1 EXCEPT !.sections[SECTION_ARC_PARAMS] =
                          Add32(r2.value, s1.sections[SECTION_DIGITAL])]
            IN  IF ~r1.ok
                THEN /\ Fail("OutOfBounds")
                     /\ reads' = reads \cup {r1.log}
                     /\ UNCHANGED <<self, offset>>
                ELSE IF ~r2.ok
                THEN /\ Fail("OutOfBounds")
                     /\ reads' = reads \cup {r1.log, r2.log}
                     /\ self' = s1
                     /\ offset' = r1.value
                ELSE /\ pc' = "ucode"
                     /\ reads' = reads \cup {r1.log, r2.log}
                     /\ self' = s2
                     /\ offset' = r2.value
                     /\ UNCHANGED err
       ELSE pc' = "ucode" /\ UNCHANGED <<self, offset, reads, err>>
    /\ UNCHANGED <<image, tmp, available_sections>>

\* read_sections, second part: available_sections, ee_ucode_start_addr and
\* the DRAM flag
ReadSectionsAvailable ==
    /\ pc = "ucode"
    /\ IF reads_dram_ucode(self)
       THEN LET r1 == read_uint8(self, SECTION_DIGITAL, U32(OFF_AVAILABLE_SECTIONS))
                r2 == read_uint16(self, SECTION_DIGITAL, U32(OFF_UCODE_START))
            IN  IF ~r1.ok
                THEN /\ Fail("OutOfBounds")
                     /\ reads' = reads \cup {r1.log}
                     /\ UNCHANGED <<offset, available_sections>>
                ELSE IF ~r2.ok
                THEN /\ Fail("OutOfBounds")
                     /\ reads' = reads \cup {r1.log, r2.log}
                     /\ available_sections' = r1.value
                     /\ UNCHANGED offset
                ELSE /\ reads' = reads \cup {r1.log, r2.log}
                     /\ available_sections' = r1.value
                     /\ offset' = U32(r2.value)
                     /\ IF ~has_dram_flag(r1.value)
                        THEN Fail("MissingSections")
                        ELSE pc' = "chain" /\ UNCHANGED err
       ELSE pc' = "drom_check" /\ UNCHANGED <<offset, available_sections, reads, err>>
    /\ UNCHANGED <<image, self, tmp>>

\* read_sections, third part: the walk along the chain of ucode sections
ReadSectionsChain ==
    /\ pc = "chain"
    /\ LET c == ucode_chain(self, available_sections, 0, offset)
       IN  /\ reads' = reads \cup c.logs
           /\ offset' = c.offset
           /\ IF ~c.ok
              THEN Fail("OutOfBounds") /\ UNCHANGED self
              ELSE /\ self' = [self EXCEPT !.sections[SECTION_DRAM_UCODE] =
                                  Add32(c.offset, self.sections[SECTION_DIGITAL])]
                   /\ pc' = "drom_check"
                   /\ UNCHANGED err
    /\ UNCHANGED <<image, tmp, available_sections>>

\* if (fu_thunderbolt_firmware_missing_needed_drom (self))
ParseDromCheck ==
    /\ pc = "drom_check"
    /\ IF missing_needed_drom(self)
       THEN Fail("IncompleteSections")
       ELSE pc' = "vendor_model" /\ UNCHANGED err
    /\ UNCHANGED <<image, self, tmp, offset, available_sections, reads>>

\* vendor:model
ParseVendorModel ==
    /\ pc = "vendor_model"
    /\ IF self.sections[SECTION_DROM] # W0
       THEN LET r1 == read_uint16(self, SECTION_DROM, U32(OFF_VENDOR_ID))
                s1 == [self EXCEPT !.vendor_id = r1.value]
                r2 == read_uint16(s1, SECTION_DROM, U32(OFF_MODEL_ID))
            IN  IF ~r1.ok
                THEN /\ Fail("OutOfBounds")
                     /\ reads' = reads \cup {r1.log}
                     /\ UNCHANGED self
                ELSE IF ~r2.ok
                THEN /\ Fail("OutOfBounds")
                     /\ reads' = reads \cup {r1.log, r2.log}
                     /\ self' = s1
                ELSE /\ pc' = "pd"
                     /\ reads' = reads \cup {r1.log, r2.log}
                     /\ self' = [s1 EXCEPT !.model_id = r2.value]
                     /\ UNCHANGED err
       ELSE pc' = "pd" /\ UNCHANGED <<self, reads, err>>
    /\ UNCHANGED <<image, tmp, offset, available_sections>>

\* has PD
ParseHasPd ==
    /\ pc = "pd"
    /\ IF self.sections[SECTION_ARC_PARAMS] # W0
       THEN LET r == read_uint32(self, SECTION_ARC_PARAMS, U32(OFF_PD_POINTER))
            IN  /\ reads' = reads \cup {r.log}
                /\ IF ~r.ok
                   THEN Fail("OutOfBounds") /\ UNCHANGED self
                   ELSE /\ self' = [self EXCEPT !.has_pd = valid_pd_pointer(r.value)]
                        /\ pc' = "flash_size"
                        /\ UNCHANGED err
       ELSE pc' = "flash_size" /\ UNCHANGED <<self, reads, err>>
    /\ UNCHANGED <<image, tmp, offset, available_sections>>

\* the flash size of AR, AR-C and TR hosts; then success
ParseFlashSize ==
    /\ pc = "flash_size"
    /\ IF reads_flash_size(self)
       THEN LET r == read_uint8(self, SECTION_DIGITAL, U32(OFF_FLASH_SIZE))
            IN  /\ reads' = reads \cup {r.log}
                /\ IF ~r.ok
                   THEN Fail("OutOfBounds") /\ UNCHANGED <<self, tmp>>
                   ELSE /\ tmp' = r.value
                        /\ self' = [self EXCEPT !.flash_size = flash_size_class(r.value)]
                        /\ pc' = "done"
                        /\ UNCHANGED err
       ELSE pc' = "done" /\ UNCHANGED <<self, tmp, reads, err>>
    /\ UNCHANGED <<image, offset, available_sections>>

Next ==
    \/ ParseAddImage
    \/ ParseNative
    \/ ParseFarbPointer
    \/ ParseIsHost
    \/ ParseDeviceId
    \/ ParseHwInfo
    \/ ReadSectionsDromArc
    \/ ReadSectionsAvailable
    \/ ReadSectionsChain
    \/ ParseDromCheck
    \/ ParseVendorModel
    \/ ParseHasPd
    \/ ParseFlashSize

Spec == Init /\ [][Next]_vars

----------------------------------------------------------------------------
(* What the properties are stated with: the image read directly, and the   *)
(* outcome of the parse.                                                   *)

ImgByte(pos) == ByteOf(image, pos)
Img16(pos) == ImgByte(pos) + 256 * ImgByte(pos + 1)
Img24(pos) == W(ImgByte(pos + 2), Img16(pos))
Img32(pos) == W(Img16(pos + 2), Img16(pos))

\* the range of n bytes at the unbounded position w lies inside the image
InsideImage(w, n) == w.hi < 16384 /\ w.hi * 65536 + w.lo + n <= image.len

Digital == self.sections[SECTION_DIGITAL]
\* the digital offset as a position (a FARB pointer has 24 bits)
DigitalPos == Digital.hi * 65536 + Digital.lo

Succeeded == pc = "done" /\ err = "None"
Failed == pc = "done" /\ err # "None"

\* a read of len bytes at section + off was issued / was issued and succeeded
WasRead(section, off, len) ==
    \E r \in reads : r.section = section /\ r.offset = U32(off) /\ r.len = len
WasReadOk(section, off, len) ==
    \E r \in reads : r.section = section /\ r.offset = U32(off) /\ r.len = len /\ r.ok

\* the twelve device ids of the catalog
CatalogIds == {5485, 5483, 5502, 5496, 5494, 5568, 5587, 5594, 5607, 5610, 5615, 5614}

\* the identity reads succeeded and the catalog lookup has run
IdentityKnown == WasReadOk(SECTION_DIGITAL, 5, 2) /\ pc # "hw_info"
ImgIsHost == BitSet(ImgByte(DigitalPos + 16), 1)
ImgDeviceId == Img16(DigitalPos + 5)

----------------------------------------------------------------------------
(* C1: every read whose range sections[S] + o .. + w, computed without     *)
(* wrap-around, is not wholly inside the image fails with OutOfBounds and  *)
(* fails the parse; a successful read takes its bytes at sections[S] + o.  *)
C1_ReadsStayInsideImage ==
    \A r \in reads :
        LET abs == AddWide(r.base, r.offset)
        IN  /\ ~InsideImage(abs, r.len) => (~r.ok /\ pc = "done" /\ err = "OutOfBounds")
            /\ r.ok => r.start = abs

(* C2: after a failed parse every field of the descriptor still has its    *)
(* default value.                                                          *)
C2_NoPartialDescriptor ==
    Failed => self = fu_thunderbolt_firmware_new

(* C3 as claimed: a parse of a 128-byte image always succeeds, with only   *)
(* is_native and the Digital offset set.                                   *)
C3_ProbeAlwaysSucceeds ==
    (image.len = 128 /\ pc = "done") =>
        /\ err = "None"
        /\ self = [fu_thunderbolt_firmware_new EXCEPT
                      !.is_native = self.is_native,
                      !.sections[SECTION_DIGITAL] = Digital]

(* C3 as amended: a parse of a 128-byte image succeeds if and only if the  *)
(* 24-bit value at offset 0 is neither 0 nor 0xFFFFFF, and otherwise fails *)
(* with OutOfBounds (the second FARB location is outside the image); when  *)
(* it succeeds only is_native (bit 0x20 of the native byte) and the        *)
(* Digital offset (that 24-bit value) are set.                             *)
C3_ProbeWithValidPrimaryPointer ==
    (image.len = 128 /\ pc = "done") =>
        IF Img24(0) \notin {W0, W(255, 65535)}
        THEN /\ err = "None"
             /\ self = [fu_thunderbolt_firmware_new EXCEPT
                           !.is_native = BitSet(ImgByte(FU_TBT_OFFSET_NATIVE), 5),
                           !.sections[SECTION_DIGITAL] = Img24(0)]
        ELSE err = "OutOfBounds"

C3_Witness ==
    /\ image.len = 128
    /\ Succeeded
    /\ self.is_native
    /\ Digital = W(0, 16)

C5_UnsupportedIffHostNotInCatalog ==
    /\ (err = "UnsupportedController") => IdentityKnown
    /\ IdentityKnown =>
          /\ (err = "UnsupportedController") <=> (ImgIsHost /\ ImgDeviceId \notin CatalogIds)
          /\ (~ImgIsHost /\ ImgDeviceId \notin CatalogIds) =>
                (self.family = "UNKNOWN" /\ self.gen = 0 /\ self.ports = 0)

(* C5 as amended: ... if and only if the controller is a host and the port *)
(* count the lookup left is 0, that is, its device id is none of the       *)
(* catalog ids or is 0x15EE (BB, whose catalog port count is 0); a host    *)
(* with one of the other eleven catalog ids is never rejected, and a       *)
(* non-host with an unknown id goes on with family Unknown, generation 0,  *)
(* ports 0.                                                                *)
C5_UnsupportedIffHostWithoutPorts ==
    /\ (err = "UnsupportedController") => IdentityKnown
    /\ IdentityKnown =>
          /\ (err = "UnsupportedController") <=>
                (ImgIsHost /\ ImgDeviceId \notin (CatalogIds \ {5614}))
          /\ (~ImgIsHost /\ ImgDeviceId \notin CatalogIds) =>
                (self.family = "UNKNOWN" /\ self.gen = 0 /\ self.ports = 0)

C5_Witness ==
    /\ Failed
    /\ err = "UnsupportedController"
    /\ ImgIsHost
    /\ ImgDeviceId = 65535

(* C6: a parse that reaches the Drom check fails with IncompleteSections   *)
(* if and only if the Drom offset is 0 and the controller is not a host    *)
(* with generation < 3; a host with device id 0x156D gets FR, generation   *)
(* 2, ports 2, has the Drom and ArcParams pointers not read, passes the    *)
(* check and ends successfully with vendor_id, model_id, has_pd and        *)
(* flash_size at their defaults.                                           *)
C6_DromCheck ==
    LET exempt == self.is_host /\ self.gen < 3
        drom0 == self.sections[SECTION_DROM] = W0
    IN  /\ (err = "IncompleteSections") => (pc = "done" /\ drom0 /\ ~exempt)
        /\ (pc \in {"vendor_model", "pd", "flash_size"} \/ (Succeeded /\ image.len # 128)) =>
              (~drom0 \/ exempt)
        /\ (IdentityKnown /\ ImgIsHost /\ ImgDeviceId = 5485) =>
              /\ self.family = "FR" /\ self.gen = 2 /\ self.ports = 2
              /\ ~WasRead(SECTION_DIGITAL, 270, 4)
              /\ ~WasRead(SECTION_DIGITAL, 117, 4)
              /\ self.sections[SECTION_DROM] = W0
              /\ self.sections[SECTION_ARC_PARAMS] = W0
              /\ self.vendor_id = 0 /\ self.model_id = 0
              /\ ~self.has_pd /\ self.flash_size = 0
              /\ pc = "done" => err = "None"

C6_Witness ==
    /\ Succeeded
    /\ self.is_host
    /\ self.device_id = 5485
    /\ self.gen = 2
    /\ self.sections[SECTION_DROM] = W0

(* C7 as claimed: for a host with generation > 2 whose available-sections  *)
(* byte (Digital+0x2) has bit 0x40 clear the parse fails with              *)
(* MissingSections and DramUcode is never resolved; for any other          *)
(* controller the byte is never read and DramUcode stays 0.                *)
C7_MissingSectionsWhenFlagClear ==
    /\ (self.is_host /\ self.gen > 2 /\ ~BitSet(ImgByte(DigitalPos + 2), 6)) =>
          /\ self.sections[SECTION_DRAM_UCODE] = W0
          /\ pc = "done" => err = "MissingSections"
    /\ ~(self.is_host /\ self.gen > 2) =>
          /\ ~WasRead(SECTION_DIGITAL, 2, 1)
          /\ self.sections[SECTION_DRAM_UCODE] = W0

(* C7 as amended: for a host with generation > 2 whose available-sections  *)
(* byte has bit 0x40 clear the parse always fails and DramUcode is never   *)
(* resolved; it fails with MissingSections once that byte is read, that    *)
(* is, unless the controller was rejected as unsupported or the read of    *)
(* the Drom or ArcParams pointer (Digital+0x10E, Digital+0x75) failed      *)
(* first; for any other controller the byte is never read and DramUcode    *)
(* stays 0.                                                                *)
C7_MissingSectionsOnceFlagRead ==
    /\ (self.is_host /\ self.gen > 2 /\ ~BitSet(ImgByte(DigitalPos + 2), 6)) =>
          /\ self.sections[SECTION_DRAM_UCODE] = W0
          /\ pc = "done" => err # "None"
          /\ WasRead(SECTION_DIGITAL, 2, 1) => (pc = "done" /\ err = "MissingSections")
          /\ (pc = "done" /\ ~WasRead(SECTION_DIGITAL, 2, 1)) =>
                \/ err = "UnsupportedController"
                \/ err = "OutOfBounds" /\ ~WasReadOk(SECTION_DIGITAL, 117, 4)
    /\ ~(self.is_host /\ self.gen > 2) =>
          /\ ~WasRead(SECTION_DIGITAL, 2, 1)
          /\ self.sections[SECTION_DRAM_UCODE] = W0

C7_Witness ==
    /\ Failed
    /\ err = "MissingSections"
    /\ self.is_host /\ self.gen > 2
    /\ ImgByte(DigitalPos + 2) = 63
    /\ self.sections[SECTION_DRAM_UCODE] = W0

(* C8: after a successful parse of more than the first chunk has_pd is     *)
(* true if and only if ArcParams is resolved and the 32-bit value at       *)
(* ArcParams+0x10C in the image is neither 0 nor 0xFFFFFFFF; with          *)
(* ArcParams unresolved the pointer is not read.                           *)
C8_HasPdIffValidPointer ==
    (Succeeded /\ image.len # 128) =>
        LET arc == self.sections[SECTION_ARC_PARAMS]
            at  == AddWide(arc, U32(268))
        IN  /\ self.has_pd <=>
                  /\ arc # W0
                  /\ InsideImage(at, 4)
                  /\ Img32(at.hi * 65536 + at.lo) \notin {W0, W(65535, 65535)}
            /\ arc = W0 => ~WasRead(SECTION_ARC_PARAMS, 268, 4)

(* C9: flash_size is 0..7; unless the controller is a host of family AR,   *)
(* AR-C or TR it stays 0 and the byte at Digital+0x45 is not read; for     *)
(* such a host a successful parse leaves it at that byte's low 3 bits.     *)
C9_FlashSizeOnlyForArTrHosts ==
    LET populated == self.is_host /\ self.family \in {"AR", "AR_C", "TR"}
    IN  /\ self.flash_size \in 0 .. 7
        /\ ~populated =>
              (self.flash_size = 0 /\ ~WasRead(SECTION_DIGITAL, 69, 1))
        /\ (populated /\ Succeeded /\ image.len # 128) =>
              /\ self.flash_size = ImgByte(DigitalPos + 69) % 8
              /\ WasReadOk(SECTION_DIGITAL, 69, 1)
        /\ (populated /\ ~Succeeded) => self.flash_size = 0

C9_Witness ==
    /\ Succeeded
    /\ self.is_host
    /\ self.family = "TR"
    /\ ImgByte(DigitalPos + 69) = 253
    /\ self.flash_size = 5

\* the running offset after the bits from bit on, advancing by v*4 + 2 for
\* every set bit
RECURSIVE RunningOffset(_, _, _)
RunningOffset(avail, bit, off) ==
    IF bit > 5 THEN off
    ELSE IF ~BitSet(avail, bit) THEN RunningOffset(avail, bit + 1, off)
    ELSE LET at == AddWide(Digital, off)
             v  == IF InsideImage(at, 2) THEN Img16(at.hi * 65536 + at.lo) ELSE 0
         IN  RunningOffset(avail, bit + 1, AddWide(off, U32(v * 4 + 2)))

(* C10: when the chain walk of a host with generation > 2 has resolved     *)
(* DramUcode, its offset is Digital + R, R being the 16-bit value at       *)
(* Digital+0x3 advanced, for every set bit 0..5 of the bitmask in          *)
(* ascending order, by v*4 + 2 for the 16-bit word count v at the running  *)
(* offset.                                                                 *)
C10_DramUcodeIsDigitalPlusChain ==
    (self.is_host /\ self.gen > 2 /\ self.sections[SECTION_DRAM_UCODE] # W0) =>
        self.sections[SECTION_DRAM_UCODE] =
            AddWide(Digital,
                    RunningOffset(ImgByte(DigitalPos + 2), 0, U32(Img16(DigitalPos + 3))))

====
